---- MODULE Spec2Model ----
(***************************************************************************)
(* The airflow_user resource of terraform-provider-airflow                 *)
(* (resource_user.go): the four handlers Create / Read / Update / Delete,  *)
(* the process-wide user cache airflowUsers with its mutex                 *)
(* airflowUsersFetch, the paginated walk fetchAllUsers and the role codec  *)
(* expandAirflowUserRoles / flattenAirflowUserRoles.                       *)
(*                                                                         *)
(* The Airflow REST API behind client.UserApi is the environment: a        *)
(* directory of user records ordered by creation, listed in pages.        *)
(*                                                                         *)
(* Strings are TLA+ strings; "" is Go's empty string (an unset Id).        *)
(***************************************************************************)
EXTENDS Naturals, Sequences, FiniteSets, TLC

\* ------------------------------------------------------------- constants

\* resource_user.go:107  limit := int32(100), the page size of every request.
limit == 100

\* Users that live in the directory from the start and are managed by nobody
\* here.  With NumResidents >= limit a freshly created user lands on the
\* second page of the listing.
NumResidents == 100

\* The resources (callers) of the process; each owns one ResourceData d[p].
Procs == {1, 2}

\* The configurations a resource is declared with over time: resource 1 is
\* edited between two, the others keep the one they have.
Versions(p) == IF p = 1 THEN {1, 2} ELSE {1}

\* resource_user.go:12  the zero value of the mutex: held by nobody.
Unlocked == 0

\* ------------------------------------------------------------ role codec

\* schema.Set.List(): the elements of the set as a list, in the set's own
\* (hash) order; any duplicate-free enumeration of S.
SetLists(S) ==
  {l \in [1..Cardinality(S) -> S] : \A i, j \in DOMAIN l : i # j => l[i] # l[j]}

List(S) == CHOOSE l \in SetLists(S) : TRUE

\* A plausible slip of expandAirflowUserRoles: the last element is dropped.
expandDropsLast(tfList) ==
  IF Len(tfList) = 0 THEN <<>>
  ELSE [i \in 1..(Len(tfList) - 1) |-> [Name |-> tfList[i]]]

\* resource_user.go:202-223.  tfList is tfList.List(); nil is the empty list.
\* Every element of the schema's set is a string, so the `!ok` branch never
\* skips one.  A reference carries the Name only.
expandAirflowUserRoles(tfList) ==
  IF Len(tfList) = 0 THEN <<>>
  ELSE [i \in 1..Len(tfList) |-> [Name |-> tfList[i]]]

\* resource_user.go:225-232
flattenAirflowUserRoles(apiObjects) ==
  [i \in 1..Len(apiObjects) |-> apiObjects[i].Name]

\* d.Set("roles", []string) on a TypeSet field: the list becomes a set.
SetOf(l) == {l[i] : i \in DOMAIN l}

\* ------------------------------------------------- the remote directory

ResidentEmail(i) == "r" \o ToString(i) \o "@x.com"

\* airflow.UserCollectionItem as the API lists it (no password: the API never
\* returns one).
Resident(i) ==
  [email |-> ResidentEmail(i), username |-> ResidentEmail(i),
   first_name |-> "R", last_name |-> "R",
   roles |-> <<[Name |-> "Viewer"]>>,
   active |-> TRUE, failed_login_count |-> 0, login_count |-> 0,
   last_login |-> ""]

\* The declared user of resource p in configuration v.  Resource 1 uses its
\* e-mail as username (the Cloud Composer set-up of the docs), resource 2 a
\* username of its own.
DeclEmail(p) == IF p = 1 THEN "a@x.com" ELSE "u" \o ToString(p) \o "@x.com"
DeclUsername(p) == IF p = 1 THEN "a@x.com" ELSE "user" \o ToString(p)
DeclRoles(v) == IF v = 1 THEN {"Admin"} ELSE {"Admin", "Op" \o ToString(v)}

Declared(p, v) ==
  [email |-> DeclEmail(p), username |-> DeclUsername(p),
   first_name |-> "F" \o ToString(v), last_name |-> "L" \o ToString(v),
   password |-> "pw" \o ToString(v), roles |-> DeclRoles(v)]

RewrittenUsername(p) == "accounts.google.com:" \o ToString(p)
LoginTime == "2026-11-01T00:00:00Z"

Emails(directory) == {directory[i].email : i \in DOMAIN directory}
Usernames(directory) == {directory[i].username : i \in DOMAIN directory}
IndexOfUsername(directory, username) ==
  CHOOSE i \in DOMAIN directory : directory[i].username = username
IndexOfEmail(directory, email) ==
  CHOOSE i \in DOMAIN directory : directory[i].email = email

Min(a, b) == IF a < b THEN a ELSE b

\* GET /users?limit=&offset= : the records at positions offset+1 ..
\* offset+limit and the size of the whole collection.
GetUsers(directory, lim, offset) ==
  [users |-> SubSeq(directory, offset + 1, Min(offset + lim, Len(directory))),
   total_entries |-> Len(directory)]

\* POST /users : 409 when the username or the e-mail is taken, else the
\* record is appended with the server's defaults for the derived fields.
PostUserOk(directory, user) ==
  /\ user.email \notin Emails(directory)
  /\ user.username \notin Usernames(directory)

PostUser(directory, user) ==
  Append(directory,
    [email |-> user.email, username |-> user.username,
     first_name |-> user.first_name, last_name |-> user.last_name,
     roles |-> user.roles,
     active |-> TRUE, failed_login_count |-> 0, login_count |-> 0,
     last_login |-> ""])

\* PATCH /users/{username} : 404 when nobody has that username.
PatchUserOk(directory, username) == username \in Usernames(directory)

PatchUser(directory, username, user) ==
  LET i == IndexOfUsername(directory, username) IN
  [directory EXCEPT ![i] =
     [@ EXCEPT !.email = user.email, !.username = user.username,
               !.first_name = user.first_name, !.last_name = user.last_name,
               !.roles = user.roles]]

\* DELETE /users/{username} : the record leaves the collection and the
\* records after it move up by one position.
DeleteUser(directory, username) ==
  LET i == IndexOfUsername(directory, username) IN
  [j \in 1..(Len(directory) - 1) |->
     IF j < i THEN directory[j] ELSE directory[j + 1]]

\* ------------------------------------------------------------ the cache

\* resource_user.go:111-113  the assignments users[*u.Email] = u for the
\* records lo..hi of the page, as a map of their own: a later record wins over
\* an earlier one of the same e-mail.
RECURSIVE PageMap(_, _, _)
PageMap(page, lo, hi) ==
  IF lo > hi THEN <<>>
  ELSE IF lo = hi THEN page[lo].email :> page[lo]
  ELSE LET mid == (lo + hi) \div 2
       IN PageMap(page, mid + 1, hi) @@ PageMap(page, lo, mid)

\* resource_user.go:110-114  the page merged into the map: its records win
\* over what the map held, everything else stays.
MergePage(users, page) == PageMap(page, 1, Len(page)) @@ users

\* resource_user.go:121  *usersInResponse.TotalEntries > int32(len(users))
MorePages(total, users) == total > Cardinality(DOMAIN users)

\* resource_user.go:103-126 run to its end against a directory that stands
\* still.  failing is the set of offsets whose page request fails.  The
\* result is the error flag, the map as the walk leaves it and the offsets
\* requested, in order.
RECURSIVE fetchAllUsers(_, _, _, _)
fetchAllUsers(users, offset, directory, failing) ==
  IF offset \in failing
  THEN [err |-> TRUE, users |-> users, requests |-> <<offset>>]
  ELSE LET resp == GetUsers(directory, limit, offset)
           merged == MergePage(users, resp.users)
       IN IF MorePages(resp.total_entries, merged)
          THEN LET rest == fetchAllUsers(merged, offset + limit, directory, failing)
               IN [rest EXCEPT !.requests = <<offset>> \o @]
          ELSE [err |-> FALSE, users |-> merged, requests |-> <<offset>>]

\* ------------------------------------------------------ the local state

\* A fresh schema.ResourceData holding the configuration of resource p: no
\* Id, the computed attributes at their zero values.
NewResourceData(p, v) ==
  LET c == Declared(p, v) IN
  [id |-> "", email |-> c.email, username |-> c.username,
   first_name |-> c.first_name, last_name |-> c.last_name,
   password |-> c.password, roles |-> c.roles,
   active |-> FALSE, failed_login_count |-> 0, login_count |-> ""]

\* The ResourceData handed to Update: the planned values of the attributes
\* that may change in place; email and username force a new resource and
\* keep the values of the state.
PlannedResourceData(dd, p, v) ==
  LET c == Declared(p, v) IN
  [dd EXCEPT !.first_name = c.first_name, !.last_name = c.last_name,
             !.password = c.password, !.roles = c.roles]

\* A plausible slip of line 151: the password is read from the record.
SetFromUserRemotePassword(dd, user) ==
  [dd EXCEPT !.active = user.active, !.email = user.email,
             !.failed_login_count = user.failed_login_count,
             !.first_name = user.first_name, !.last_name = user.last_name,
             !.login_count = user.last_login, !.username = user.username,
             !.password = user.username,
             !.roles = SetOf(flattenAirflowUserRoles(user.roles))]

\* resource_user.go:144-152  the d.Set calls of a Read that found the user.
\* login_count is set from user.GetLastLogin().
SetFromUser(dd, user) ==
  [dd EXCEPT !.active = user.active, !.email = user.email,
             !.failed_login_count = user.failed_login_count,
             !.first_name = user.first_name, !.last_name = user.last_name,
             !.login_count = user.last_login, !.username = user.username,
             !.password = dd.password,
             !.roles = SetOf(flattenAirflowUserRoles(user.roles))]

\* resource_user.go:136-154  the lookup and what follows it.
Lookup(dd, users) ==
  IF dd.id \notin DOMAIN users
  THEN [dd EXCEPT !.id = ""]
  ELSE SetFromUser(dd, users[dd.id])

\* A plausible slip of lines 132-135: the error path clears the Id as the
\* path of a user not found does.
resourceUserReadClearsId(dd, users, directory, failing) ==
  LET r == fetchAllUsers(users, 0, directory, failing) IN
  IF r.err
  THEN [err |-> TRUE, d |-> [dd EXCEPT !.id = ""], users |-> r.users,
        requests |-> r.requests]
  ELSE [err |-> FALSE, d |-> Lookup(dd, r.users), users |-> r.users,
        requests |-> r.requests]

\* A plausible slip of lines 132-135: a refresh that failed throws the map
\* away.
resourceUserReadDropsCache(dd, users, directory, failing) ==
  LET r == fetchAllUsers(users, 0, directory, failing) IN
  IF r.err
  THEN [err |-> TRUE, d |-> dd, users |-> <<>>, requests |-> r.requests]
  ELSE [err |-> FALSE, d |-> Lookup(dd, r.users), users |-> r.users,
        requests |-> r.requests]

\* resource_user.go:128-155 run to its end with no other caller in between.
resourceUserRead(dd, users, directory, failing) ==
  LET r == fetchAllUsers(users, 0, directory, failing) IN
  IF r.err
  THEN [err |-> TRUE, d |-> dd, users |-> r.users, requests |-> r.requests]
  ELSE [err |-> FALSE, d |-> Lookup(dd, r.users), users |-> r.users,
        requests |-> r.requests]

\* resource_user.go:82-89 and 169-176  the airflow.User of the request.
UserOf(dd, email) ==
  [email |-> email, username |-> dd.username,
   first_name |-> dd.first_name, last_name |-> dd.last_name,
   password |-> dd.password,
   roles |-> expandAirflowUserRoles(List(dd.roles))]

\* ---------------------------------------------------------------- state

VARIABLES
  dir,                \* the remote directory: the user records, oldest first
  airflowUsers,       \* resource_user.go:11  the cache, e-mail -> record
  airflowUsersFetch,  \* resource_user.go:12  the mutex: Unlocked or its holder
  d,                  \* d[p]: the ResourceData of resource p
  pc,                 \* pc[p]: where caller p stands in its handler
  offset,             \* offset[p]: the offset of p's next page request
  run,                \* run[p]: the handler call p is in
  writer,             \* who merged a page last since the mutex was last taken
  last,               \* the handler call that returned last, for the record
  codec               \* a run of the role codec: its input and its results

vars == <<dir, airflowUsers, airflowUsersFetch, d, pc, offset, run, writer,
          last, codec>>

\* The page requests a handler call may see fail: none, the first, the second.
FailChoices == {{}, {0}, {limit}}

\* The record of a handler call: the handler, its caller, whether it returned
\* an error, the ResourceData it was handed, the remote calls other than
\* listings it made (operation and addressed username) and the offsets of its
\* page requests, in order.
Returned(op, p, err, entry, calls, requests) ==
  [op |-> op, proc |-> p, err |-> err, entry |-> entry, calls |-> calls,
   requests |-> requests]

NoCall == Returned("none", 0, FALSE, NewResourceData(1, 1), <<>>, <<>>)

\* The process has just started: an empty cache, a free mutex, no resource
\* created yet; the directory holds n residents.
Start(n) ==
  /\ dir = [i \in 1..n |-> Resident(i)]
  /\ airflowUsers = <<>>
  /\ airflowUsersFetch = Unlocked
  /\ d = [p \in Procs |-> NewResourceData(p, 1)]
  /\ pc = [p \in Procs |-> "idle"]
  /\ offset = [p \in Procs |-> 0]
  /\ run = [p \in Procs |-> NoCall]
  /\ writer = Unlocked
  /\ last = NoCall

\* The role codec has run on nothing yet.
CodecIdle ==
  codec = [step |-> "input", tfList |-> <<>>, refs |-> <<>>, names |-> <<>>]

Init == CodecIdle /\ \E n \in {0, NumResidents} : Start(n)

Idle == \A p \in Procs : pc[p] = "idle"

\* --------------------------------------- the handlers, one call at a time

\* A handler call returns after its Read r: the cache and the ResourceData
\* are as the Read left them.
ReturnsAfterRead(p, op, entry, calls, r) ==
  /\ airflowUsers' = r.users
  /\ d' = [d EXCEPT ![p] = r.d]
  /\ last' = Returned(op, p, r.err, entry, calls, r.requests)

\* A plausible slip of lines 90-98: the Id is set before the error of the
\* remote call is looked at.
ReturnsErrorAfterSetId(p, op, entry, calls) ==
  /\ d' = [d EXCEPT ![p] = [entry EXCEPT !.id = entry.email]]
  /\ last' = Returned(op, p, TRUE, entry, [calls EXCEPT ![1].err = TRUE],
                      <<>>)
  /\ UNCHANGED <<dir, airflowUsers>>

\* A handler call returns the error of its remote call: lines 90-92, 177-179.
ReturnsError(p, op, entry, calls) ==
  /\ d' = [d EXCEPT ![p] = entry]
  /\ last' = Returned(op, p, TRUE, entry, [calls EXCEPT ![1].err = TRUE],
                      <<>>)
  /\ UNCHANGED <<dir, airflowUsers>>

\* resource_user.go:69-101
Create(p) ==
  /\ Idle
  /\ \E v \in Versions(p) :
       \E entry \in {NewResourceData(p, v)} :
       \E user \in {UserOf(entry, entry.email)} :
       \E call \in {<<[op |-> "PostUser", username |-> user.username,
                          err |-> FALSE]>>} :
         \/ ReturnsError(p, "Create", entry, call)
         \/ /\ PostUserOk(dir, user)
            /\ dir' = PostUser(dir, user)
            /\ \E failing \in FailChoices :
                 \E r \in {resourceUserRead([entry EXCEPT !.id = entry.email],
                                             airflowUsers, dir', failing)} :
                   ReturnsAfterRead(p, "Create", entry, call, r)
  /\ UNCHANGED <<airflowUsersFetch, pc, offset, run, writer, codec>>

\* resource_user.go:128-155
Read(p) ==
  /\ Idle
  /\ d[p].id # ""
  /\ \E failing \in FailChoices :
       \E r \in {resourceUserRead(d[p], airflowUsers, dir, failing)} :
         ReturnsAfterRead(p, "Read", d[p], <<>>, r)
  /\ UNCHANGED <<dir, airflowUsersFetch, pc, offset, run, writer, codec>>

\* resource_user.go:157-182.  Update is called when the plan differs from
\* the state.
Update(p) ==
  /\ Idle
  /\ d[p].id # ""
  /\ \E v \in Versions(p) :
       \E entry \in {PlannedResourceData(d[p], p, v)} :
       \E user \in {UserOf(entry, entry.id)} :
       \E call \in {<<[op |-> "PatchUser", username |-> entry.username,
                          err |-> FALSE]>>} :
         /\ entry # d[p]
         /\ \/ ReturnsError(p, "Update", entry, call)
            \/ /\ PatchUserOk(dir, entry.username)
               /\ dir' = PatchUser(dir, entry.username, user)
               /\ \E failing \in FailChoices :
                    \E r \in {resourceUserRead(entry, airflowUsers, dir',
                                                failing)} :
                      ReturnsAfterRead(p, "Update", entry, call, r)
  /\ UNCHANGED <<airflowUsersFetch, pc, offset, run, writer, codec>>

\* What client.UserApi.DeleteUser(...).Execute() hands back: the status of
\* the response (0: no response at all) and whether err is non-nil.  A 404
\* comes with or without an error value, as the client sees fit.
DeleteResponses(directory, username) ==
  IF username \in Usernames(directory)
  THEN {[status |-> 204, err |-> FALSE], [status |-> 0, err |-> TRUE]}
  ELSE {[status |-> 404, err |-> TRUE], [status |-> 404, err |-> FALSE],
        [status |-> 0, err |-> TRUE]}

\* resource_user.go:191-199  whether Delete returns an error.
DeleteFails(resp) ==
  IF resp.err THEN TRUE
  ELSE IF resp.status # 0 /\ resp.status = 404 THEN FALSE
  ELSE FALSE

\* resource_user.go:184-200
Delete(p) ==
  \E resp \in DeleteResponses(dir, d[p].username) :
    /\ Idle
    /\ d[p].id # ""
    /\ dir' = IF resp.status = 204 THEN DeleteUser(dir, d[p].username) ELSE dir
    /\ last' = Returned("Delete", p, DeleteFails(resp), d[p],
                        <<[op |-> "DeleteUser", username |-> d[p].username,
                           status |-> resp.status, err |-> resp.err]>>, <<>>)
    /\ UNCHANGED <<airflowUsers, airflowUsersFetch, d, pc, offset, run,
                   writer, codec>>

\* Out of band: the user of resource p logs in for the first time through
\* the identity provider, which replaces a username that was the e-mail by
\* its own id (docs/resources/airflow_user.md, GCP Cloud Composer).
FirstLogin(p) ==
  /\ Idle
  /\ DeclEmail(p) \in Emails(dir)
  /\ LET i == IndexOfEmail(dir, DeclEmail(p)) IN
       /\ dir[i].username = dir[i].email
       /\ dir' = [dir EXCEPT ![i] =
                    [@ EXCEPT !.username = RewrittenUsername(p),
                              !.login_count = @ + 1,
                              !.last_login = LoginTime]]
  /\ last' = Returned("FirstLogin", p, FALSE, d[p], <<>>, <<>>)
  /\ UNCHANGED <<airflowUsers, airflowUsersFetch, d, pc, offset, run, writer,
                 codec>>

Next ==
  \E p \in Procs :
    \/ Create(p)
    \/ Read(p)
    \/ Update(p)
    \/ Delete(p)
    \/ FirstLogin(p)

Spec == Init /\ [][Next]_vars

\* ------------------------------------------- the handlers, step by step
\* Callers run concurrently; a step is one remote call or one operation on
\* the mutex.  pc[p] is "idle" (in no handler), "lock" (at line 130),
\* "fetch" (in fetchAllUsers, at the request of line 109) or "lookup" (at
\* line 136).

\* The walk gives up its model at this offset (the code has no such cap).
MaxOffset == 300

\* A plausible slip of line 130: the mutex is not taken exclusively.
LockAlwaysFree == TRUE

\* resource_user.go:130  Lock() goes through when nobody holds the mutex.
LockFree == airflowUsersFetch = Unlocked

\* Concurrent callers create their resources as first declared.
ParVersions(p) == {v \in Versions(p) : \A w \in Versions(p) : v <= w}

\* resource_user.go:82-100  Create up to its Read.
CallCreate(p) ==
  /\ pc[p] = "idle"
  /\ \E v \in ParVersions(p) :
       \E entry \in {NewResourceData(p, v)} :
       \E user \in {UserOf(entry, entry.email)} :
       \E call \in {<<[op |-> "PostUser", username |-> user.username,
                          err |-> FALSE]>>} :
         \/ /\ ReturnsError(p, "Create", entry, call)
            /\ UNCHANGED <<pc, run>>
         \/ /\ PostUserOk(dir, user)
            /\ dir' = PostUser(dir, user)
            /\ d' = [d EXCEPT ![p] = [entry EXCEPT !.id = entry.email]]
            /\ run' = [run EXCEPT ![p] =
                         Returned("Create", p, FALSE, entry, call, <<>>)]
            /\ pc' = [pc EXCEPT ![p] = "lock"]
            /\ UNCHANGED <<airflowUsers, last>>
  /\ UNCHANGED <<airflowUsersFetch, offset, writer, codec>>

\* resource_user.go:128  Read is entered.
CallRead(p) ==
  /\ pc[p] = "idle"
  /\ d[p].id # ""
  /\ run' = [run EXCEPT ![p] = Returned("Read", p, FALSE, d[p], <<>>, <<>>)]
  /\ pc' = [pc EXCEPT ![p] = "lock"]
  /\ UNCHANGED <<dir, airflowUsers, airflowUsersFetch, d, offset, writer,
                 last, codec>>

\* resource_user.go:184-200  Delete takes no lock: one step.
CallDelete(p) ==
  /\ pc[p] = "idle"
  /\ d[p].id # ""
  /\ \E resp \in DeleteResponses(dir, d[p].username) :
       /\ dir' = IF resp.status = 204 THEN DeleteUser(dir, d[p].username)
                 ELSE dir
       /\ last' = Returned("Delete", p, DeleteFails(resp), d[p],
                           <<[op |-> "DeleteUser", username |-> d[p].username,
                              status |-> resp.status, err |-> resp.err]>>, <<>>)
  /\ UNCHANGED <<airflowUsers, airflowUsersFetch, d, pc, offset, run, writer,
                 codec>>

\* resource_user.go:130-131  the mutex is taken; the walk starts at offset 0.
Lock(p) ==
  /\ pc[p] = "lock"
  /\ LockFree
  /\ airflowUsersFetch' = p
  /\ writer' = Unlocked
  /\ offset' = [offset EXCEPT ![p] = 0]
  /\ pc' = [pc EXCEPT ![p] = "fetch"]
  /\ UNCHANGED <<dir, airflowUsers, d, run, last, codec>>

\* A plausible slip of lines 132-135: the error path returns without the
\* Unlock.
ReadFailsLocked(p, requested) ==
  /\ pc' = [pc EXCEPT ![p] = "idle"]
  /\ last' = [requested EXCEPT !.err = TRUE]
  /\ run' = [run EXCEPT ![p] = NoCall]
  /\ UNCHANGED <<airflowUsers, airflowUsersFetch, offset, writer>>

\* resource_user.go:116-118, then 132-135  a page request fails: the walk
\* hands the error up and Read releases the mutex and returns it.
ReadFails(p, requested) ==
  /\ airflowUsersFetch' = Unlocked
  /\ pc' = [pc EXCEPT ![p] = "idle"]
  /\ last' = [requested EXCEPT !.err = TRUE]
  /\ run' = [run EXCEPT ![p] = NoCall]
  /\ UNCHANGED <<airflowUsers, offset, writer>>

\* resource_user.go:109-125  one page request of the walk and what follows
\* it: the merge and the next level of the recursion, or the way out.
FetchPage(p) ==
  /\ pc[p] = "fetch"
  /\ \E requested \in {[run[p] EXCEPT !.requests = Append(@, offset[p])]} :
       \/ \* the request fails: lines 116-118, then 132-135
          ReadFails(p, requested)
       \/ \* the request succeeds: lines 110-114, then 121-125
          \E resp \in {GetUsers(dir, limit, offset[p])} :
          \E merged \in {MergePage(airflowUsers, resp.users)} :
            /\ airflowUsers' = merged
            /\ writer' = p
            /\ run' = [run EXCEPT ![p] = requested]
            /\ IF MorePages(resp.total_entries, merged)
               THEN /\ offset[p] + limit <= MaxOffset
                    /\ offset' = [offset EXCEPT ![p] = @ + limit]
                    /\ pc' = pc
               ELSE /\ pc' = [pc EXCEPT ![p] = "lookup"]
                    /\ offset' = offset
            /\ UNCHANGED <<airflowUsersFetch, last>>
  /\ UNCHANGED <<dir, d, codec>>

\* resource_user.go:136-154  the lookup, the release of the mutex and the
\* d.Set calls, which touch nothing shared.
LookupStep(p) ==
  /\ pc[p] = "lookup"
  /\ d' = [d EXCEPT ![p] = Lookup(d[p], airflowUsers)]
  /\ airflowUsersFetch' = Unlocked
  /\ pc' = [pc EXCEPT ![p] = "idle"]
  /\ last' = run[p]
  /\ run' = [run EXCEPT ![p] = NoCall]
  /\ UNCHANGED <<dir, airflowUsers, offset, writer, codec>>

NextPar ==
  \E p \in Procs :
    \/ CallCreate(p)
    \/ CallRead(p)
    \/ CallDelete(p)
    \/ Lock(p)
    \/ FetchPage(p)
    \/ LookupStep(p)

\* The directory is one record short of a full page: the first user created
\* completes the first page, the next one opens the second.
InitPar == CodecIdle /\ Start(limit - 1)

SpecPar == InitPar /\ [][NextPar]_vars

\* ------------------------------------------------ the role codec, alone

\* The role names a configuration may use.
NumRoleNames == 4
RoleNames == {"Role" \o ToString(i) : i \in 1..NumRoleNames}

\* Any set of role names, listed in any order schema.Set.List() may give.
InitCodec ==
  /\ Start(0)
  /\ \E S \in SUBSET RoleNames : \E l \in SetLists(S) :
       codec = [step |-> "input", tfList |-> l, refs |-> <<>>, names |-> <<>>]

Expand ==
  /\ codec.step = "input"
  /\ codec' = [codec EXCEPT !.step = "encoded",
                            !.refs = expandAirflowUserRoles(codec.tfList)]
  /\ UNCHANGED <<dir, airflowUsers, airflowUsersFetch, d, pc, offset, run,
                 writer, last>>

Flatten ==
  /\ codec.step = "encoded"
  /\ codec' = [codec EXCEPT !.step = "decoded",
                            !.names = flattenAirflowUserRoles(codec.refs)]
  /\ UNCHANGED <<dir, airflowUsers, airflowUsersFetch, d, pc, offset, run,
                 writer, last>>

NextCodec == Expand \/ Flatten

SpecCodec == InitCodec /\ [][NextCodec]_vars

\* =============================================================== claims

\* The caller's ResourceData after the call that returned last, the one it
\* was handed, and the directory's record of an e-mail.
Local == d[last.proc]
Handed == last.entry
Remote(email) == dir[IndexOfEmail(dir, email)]
RefreshedOk == last.op \in {"Create", "Read", "Update"} /\ ~last.err

\* C1: a Create(U) whose creation request and page requests all succeed ends
\* with the local identity equal to U.email and the local email, first name,
\* last name, username and roles equal to U's, whatever calls came before.
C1_CreateYieldsDeclared ==
  (last.op = "Create" /\ ~last.err) =>
     /\ Local.id = Handed.email
     /\ Local.email = Handed.email
     /\ Local.first_name = Handed.first_name
     /\ Local.last_name = Handed.last_name
     /\ Local.username = Handed.username
     /\ Local.roles = Handed.roles

\* C2: a Read whose identity is not in the directory at the time of the Read,
\* and whose page requests all succeed, clears the local identity and
\* returns no error, whatever calls came before.
C2_ReadOfAbsentClearsId ==
  (last.op = "Read" /\ Handed.id \notin Emails(dir)) =>
     (~last.err => Local.id = "")

\* C3: a Delete addressed to a username the directory does not hold (404)
\* returns success, whether the client hands back the 404 with or without an
\* error value; any failure other than a 404 is returned as an error.
C3_DeleteIdempotent ==
  last.op = "Delete" =>
     /\ last.calls[1].status = 404 => ~last.err
     /\ (last.calls[1].err /\ last.calls[1].status # 404) => last.err

\* C4: once the directory has rewritten the username of a resource's user
\* and a Read of that resource has succeeded, the Update that follows
\* addresses patchUser to the rewritten username; and a Read or an Update
\* never changes a non-empty identity whose user is in the directory.
C4_UpdateAddressesRewritten ==
  [][ /\ ( /\ last.op = "Read" /\ ~last.err
           /\ Local.id \in Emails(dir)
           /\ Remote(Local.id).username = RewrittenUsername(last.proc)
           /\ last'.op = "Update" /\ last'.proc = last.proc )
         => last'.calls[1].username = RewrittenUsername(last.proc)
      /\ \A p \in Procs :
           ( /\ last'.op \in {"Read", "Update"} /\ last'.proc = p
             /\ d[p].id # "" /\ d[p].id \in Emails(dir') )
           => d'[p].id = d[p].id
    ]_vars

\* C5: after a successful Update the local first name, last name and roles
\* equal the values the directory now holds for that e-mail, which are the
\* declared ones.
C5_UpdateYieldsRemote ==
  (last.op = "Update" /\ ~last.err) =>
     LET u == Remote(Handed.id) IN
     /\ u.first_name = Handed.first_name /\ Local.first_name = u.first_name
     /\ u.last_name = Handed.last_name /\ Local.last_name = u.last_name
     /\ SetOf(flattenAirflowUserRoles(u.roles)) = Handed.roles
     /\ Local.roles = SetOf(flattenAirflowUserRoles(u.roles))

\* C6: after every successful refresh the cache holds exactly the users of
\* the directory: one entry per e-mail of the directory with the directory's
\* current record, and no entry for any other e-mail.
C6_CacheIsDirectory ==
  RefreshedOk =>
     /\ DOMAIN airflowUsers = Emails(dir)
     /\ \A i \in DOMAIN dir : airflowUsers[dir[i].email] = dir[i]

\* C7: with Reads running concurrently at most one caller is between taking
\* and releasing the mutex: a caller is in the walk or at its lookup exactly
\* when it holds the mutex, so no two walks overlap; and a caller at its
\* lookup is the one that merged the last page, after it took the mutex:
\* nobody merged a page since, and the lookup is in the critical section of
\* its own refresh.
C7_OneReaderAtATime ==
  /\ \A p \in Procs :
       (pc[p] \in {"fetch", "lookup"}) <=> (airflowUsersFetch = p)
  /\ \A p, q \in Procs :
       (pc[p] \in {"fetch", "lookup"} /\ pc[q] \in {"fetch", "lookup"}) => p = q
  /\ \A p \in Procs : pc[p] = "lookup" => writer = p

\* Two Reads at once: one at its lookup after a walk of two pages, the other
\* waiting for the mutex.
C7_Witness ==
  \E p, q \in Procs :
    /\ p # q
    /\ pc[p] = "lookup" /\ run[p].op = "Read" /\ Len(run[p].requests) = 2
    /\ pc[q] = "lock" /\ run[q].op = "Read"

\* C8: the password never comes from the directory: after a Read, a Create
\* or an Update the local password is the one the caller handed in.
C8_PasswordKept ==
  last.op \in {"Read", "Create", "Update"} => Local.password = Handed.password

\* An Update that changed the password, found the user and set every other
\* attribute from the cached record.
C8_Witness ==
  /\ last.op = "Update" /\ ~last.err
  /\ Local.id # ""
  /\ Local.password = Declared(last.proc, 2).password
  /\ Local.password # Local.username
  /\ Local.first_name = airflowUsers[Local.id].first_name

\* C9: after a successful Read that finds the user, active, failed_login_count
\* and login_count equal the active flag, the failed-login count and the
\* login count of the directory's record (login_count is a string attribute:
\* the count in decimal).
C9_ComputedFromRemote ==
  (last.op = "Read" /\ ~last.err /\ Local.id # "" /\ Local.id \in Emails(dir)) =>
     LET u == Remote(Local.id) IN
     /\ Local.active = u.active
     /\ Local.failed_login_count = u.failed_login_count
     /\ Local.login_count = ToString(u.login_count)

\* C10: encode gives one reference per name, carrying the name only, and
\* nothing for the empty set; decode of it gives back exactly the names: none
\* lost, none added.
C10_RoleRoundTrip ==
  LET S == SetOf(codec.tfList) IN
  /\ codec.step \in {"encoded", "decoded"} =>
       /\ Len(codec.refs) = Cardinality(S)
       /\ \A i \in DOMAIN codec.refs : DOMAIN codec.refs[i] = {"Name"}
       /\ \A n \in S :
            Cardinality({i \in DOMAIN codec.refs : codec.refs[i].Name = n}) = 1
       /\ S = {} => codec.refs = <<>>
  /\ codec.step = "decoded" =>
       /\ SetOf(codec.names) = S
       /\ Len(codec.names) = Cardinality(S)

\* A set of three names has gone through encode and decode.
C10_Witness ==
  /\ codec.step = "decoded"
  /\ Cardinality(SetOf(codec.tfList)) = 3
  /\ Len(codec.names) = 3

\* C11: the exported id is the username: after a successful Create the local
\* identity equals the declared username, also when that differs from the
\* declared e-mail.
C11_IdIsUsername ==
  (last.op = "Create" /\ ~last.err) => Local.id = Handed.username

\* The page requests a standing directory of n users takes: ceil(n / limit)
\* of them, at offsets 0, limit, 2 * limit, ...
PagesOf(n) == [i \in 1..((n + limit - 1) \div limit) |-> (i - 1) * limit]

\* C12: every refresh of a directory of N users, the first of the process or
\* a later one, ends after exactly ceil(N / limit) page requests, at offsets
\* 0, limit, 2 * limit, ... in that order.  Stated for N >= 1: the walk
\* always issues the request at offset 0, the one that reports an empty
\* directory empty.
C12_PagesRequested ==
  (RefreshedOk /\ Len(dir) >= 1) => last.requests = PagesOf(Len(dir))

\* C13: when a page request of a Read fails, that request is the last of the
\* refresh, the Read returns an error, the mutex it held is free again, the
\* ResourceData is as it was handed in, and the cache keeps what the earlier
\* pages merged into it: the failing step leaves the cache alone and no step
\* of a walk takes an e-mail out of it.
C13_FailedPageRequest ==
  [][\A p \in Procs :
       /\ pc[p] = "fetch" => DOMAIN airflowUsers \subseteq DOMAIN airflowUsers'
       /\ (pc[p] = "fetch" /\ pc'[p] = "idle") =>
            /\ last' = [run[p] EXCEPT !.requests = Append(@, offset[p]),
                                      !.err = TRUE]
            /\ run'[p] = NoCall
            /\ airflowUsersFetch = p
            /\ airflowUsersFetch' = Unlocked
            /\ d'[p] = d[p]
            /\ run[p].op = "Read" => d'[p] = run[p].entry
            /\ airflowUsers' = airflowUsers]_vars

\* A Read failed at its second page request, the first page is in the cache,
\* and a later Read holds the mutex.
C13_Witness ==
  /\ last.op = "Read" /\ last.err
  /\ last.requests = <<0, limit>>
  /\ d[last.proc] = last.entry
  /\ \A i \in 1..limit : dir[i].email \in DOMAIN airflowUsers
  /\ \E q \in Procs : airflowUsersFetch = q /\ run[q].op = "Read"

\* C14: no retry and immediate propagation: when the PostUser of a Create,
\* the PatchUser of an Update or the DeleteUser of a Delete fails, the call
\* returns an error after that one remote call, issues no page request, and
\* leaves the ResourceData and the cache as they were.
C14_NoRetry ==
  [][(last'.op \in {"Create", "Update", "Delete"} /\ last'.calls[1].err) =>
       /\ last'.err
       /\ Len(last'.calls) = 1
       /\ last'.requests = <<>>
       /\ d'[last'.proc] = last'.entry
       /\ airflowUsers' = airflowUsers]_vars

\* A Create failed at its PostUser with users in the cache, none of them the
\* one it declared.
C14_Witness ==
  /\ last.op = "Create" /\ last.calls[1].err
  /\ Local.id = ""
  /\ airflowUsers # <<>>
  /\ Handed.email \notin DOMAIN airflowUsers

\* C15 as claimed: whenever Create returns an error, for whichever reason,
\* the local identity is still unset.
C15_NoIdOnError ==
  (last.op = "Create" /\ last.err) => Local.id = ""

\* C15, amended: when Create returns an error because its PostUser failed,
\* the local identity is still unset; when the PostUser succeeded and a page
\* request of the Read after it failed, Create returns its error with the
\* local identity already set to the declared e-mail (line 98 runs before
\* the Read).
C15_IdOnErrorAfterPost ==
  (last.op = "Create" /\ last.err) =>
    /\ Len(last.calls) = 1
    /\ Local.id = IF last.calls[1].err THEN "" ELSE Handed.email
    /\ last.calls[1].err <=> last.requests = <<>>

\* A Create returned the error of its second page request: the user is in
\* the directory and the ResourceData carries its Id.
C15_Witness ==
  /\ last.op = "Create" /\ last.err /\ ~last.calls[1].err
  /\ last.requests = <<0, limit>>
  /\ Local.id = Handed.email
  /\ Local.id \in Emails(dir)

\* C16: a refresh ends by itself whatever the remote reports: when the total
\* stays above the number of e-mails the pages deliver, the walk gives up
\* with an error after a bounded number of requests.  No walk then asks for
\* a page that starts more than a full page past the end of the directory.
C16_WalkGivesUp ==
  \A p \in Procs : pc[p] = "fetch" => offset[p] <= Len(dir) + limit

\* C17: a Read of e-mail e whose user is in the directory during the whole
\* Read and whose page requests all succeed finds the user: the Id stays e
\* and the fields are those of a record the walk merged, also when another
\* caller's Create or Delete changed the directory during the walk.
C17_ReadFindsUser ==
  [][\A p \in Procs :
       (/\ pc[p] = "lookup" /\ pc'[p] = "idle"
        /\ run[p].op = "Read"
        /\ d[p].id \in Emails(dir)) =>
         /\ d'[p].id = d[p].id
         /\ d'[p] = SetFromUser(d[p], airflowUsers[d[p].id])]_vars

\* The positions of the directory that the successful page requests of the
\* last call covered.
Fetched ==
  {i \in DOMAIN dir :
     \E k \in DOMAIN last.requests :
       /\ ~(last.err /\ k = Len(last.requests))
       /\ last.requests[k] < i /\ i <= last.requests[k] + limit}

\* C18: the set of e-mails in the cache never shrinks.  No call removes an
\* entry; a call that issued no page request (a Delete, a call that failed
\* at its remote call) leaves the cache as it was; a refresh, failed or not,
\* changes only entries of e-mails on the pages it fetched, to the records
\* of those pages.
C18_CacheNeverShrinks ==
  [][/\ DOMAIN airflowUsers \subseteq DOMAIN airflowUsers'
     /\ last'.requests = <<>> => airflowUsers' = airflowUsers
     /\ last'.op = "Delete" => airflowUsers' = airflowUsers
     /\ \A e \in DOMAIN airflowUsers' :
          \/ e \in DOMAIN airflowUsers /\ airflowUsers'[e] = airflowUsers[e]
          \/ \E i \in Fetched' :
               dir'[i].email = e /\ airflowUsers'[e] = dir'[i]]_vars

\* After a successful refresh the cache holds all of a full first page and,
\* still, the e-mail of a user no longer in the directory.
C18_Witness ==
  /\ RefreshedOk
  /\ last.requests = <<0>>
  /\ Len(dir) >= limit
  /\ \E e \in DOMAIN airflowUsers : e \notin Emails(dir)

====
